---- MODULE Spec2Model ----
(***************************************************************************)
(* v.out.keplergl: one invocation of the command, from gs.parser() to the  *)
(* exit of the process.  Text values whose characters the code inspects    *)
(* (the input name, the columns list, the zoom value, the style file name) *)
(* are sequences of one-character strings; Python dicts are functions;     *)
(* Python None is the record None.                                         *)
(***************************************************************************)
EXTENDS Integers, Sequences, FiniteSets, TLC

VARIABLES pc, options, data_id, config, visual_channels, style_content,
          geojson_file, stdout, kepler, output_file, result, trace

vars == <<pc, options, data_id, config, visual_channels, style_content,
          geojson_file, stdout, kepler, output_file, result, trace>>

\* ------------------------------------------------------------------ bounds

\* Longest input map name the command line is drawn from.
MaxNameLen == 2

\* ------------------------------------------------------------ Python values

None == [none |-> TRUE]

EmptyDict == [k \in {} |-> None]

\* d[key] = value for every (key, value) of src, as a dict update does.
DictUpdate(d, src) ==
    [k \in (DOMAIN d) \cup (DOMAIN src) |-> IF k \in DOMAIN src THEN src[k] ELSE d[k]]

\* A Python float, kept exactly: mant / 10^scale with no trailing zero digit.
RECURSIVE Normalise(_, _)
Normalise(mant, scale) ==
    IF scale > 0 /\ mant % 10 = 0
        THEN Normalise(mant \div 10, scale - 1)
        ELSE [mant |-> mant, scale |-> scale]

Digits == <<"0", "1", "2", "3", "4", "5", "6", "7", "8", "9">>

IsDigit(c) == \E i \in DOMAIN Digits : Digits[i] = c

DigitVal(c) == (CHOOSE i \in DOMAIN Digits : Digits[i] = c) - 1

RECURSIVE DigitsValue(_, _)
DigitsValue(s, acc) ==
    IF s = <<>> THEN acc ELSE DigitsValue(Tail(s), acc * 10 + DigitVal(Head(s)))

IsChar(c, d) == c = d

\* float(text) for a text of an optional minus sign and decimal digits with at
\* most one point: the value, or the ValueError float() raises for any other
\* text of the alphabet used.
ToFloat(text) ==
    LET negative == text # <<>> /\ Head(text) = "-"
        body == IF negative THEN Tail(text) ELSE text
        points == {i \in DOMAIN body : IsChar(body[i], ".")}
        digits == SelectSeq(body, IsDigit)
        wellFormed == /\ Cardinality(points) <= 1
                      /\ Len(digits) >= 1
                      /\ Len(digits) + Cardinality(points) = Len(body)
    IN  IF ~wellFormed
            THEN [ok |-> FALSE, exc |-> "ValueError"]
            ELSE LET scale == IF points = {} THEN 0
                              ELSE Len(body) - (CHOOSE i \in points : TRUE)
                     mant == DigitsValue(digits, 0)
                 IN  [ok |-> TRUE,
                      value |-> Normalise(IF negative THEN 0 - mant ELSE mant, scale)]

AtText == <<"_", "_", "a", "t", "_", "_">>

\* vector_input.replace("@", "__at__")
RECURSIVE ReplaceAt(_)
ReplaceAt(name) ==
    IF name = <<>> THEN <<>>
    ELSE (IF Head(name) = "@" THEN AtText ELSE <<Head(name)>>) \o ReplaceAt(Tail(name))

\* text.split(","): the pieces between the commas, empty pieces kept.
RECURSIVE SplitFrom(_, _, _)
SplitFrom(text, piece, done) ==
    IF text = <<>> THEN Append(done, piece)
    ELSE IF Head(text) = "," THEN SplitFrom(Tail(text), <<>>, Append(done, piece))
    ELSE SplitFrom(Tail(text), Append(piece, Head(text)), done)

Split(text) == SplitFrom(text, <<>>, <<>>)

LowerMap ==
    [A |-> "a", B |-> "b", C |-> "c", D |-> "d", E |-> "e", F |-> "f", G |-> "g",
     H |-> "h", I |-> "i", J |-> "j", K |-> "k", L |-> "l", M |-> "m", N |-> "n",
     O |-> "o", P |-> "p", Q |-> "q", R |-> "r", S |-> "s", T |-> "t", U |-> "u",
     V |-> "v", W |-> "w", X |-> "x", Y |-> "y", Z |-> "z"]

\* filename.lower()
Lower(text) ==
    [i \in DOMAIN text |-> IF text[i] \in DOMAIN LowerMap THEN LowerMap[text[i]] ELSE text[i]]

\* text.endswith(suffix)
EndsWith(text, suffix) ==
    /\ Len(suffix) <= Len(text)
    /\ SubSeq(text, Len(text) - Len(suffix) + 1, Len(text)) = suffix

\* ---------------------------------------------------------------- style files

ExtJson == <<".", "j", "s", "o", "n">>
ExtYaml == <<".", "y", "a", "m", "l">>
ExtYml  == <<".", "y", "m", "l">>
ExtPy   == <<".", "p", "y">>
ExtDict == <<".", "d", "i", "c", "t">>

\* What json.loads, yaml.full_load and ast.literal_eval make of a file's text.
\* The texts: "mapping" is a flow mapping such as {"opacity": 1}, "sequence" a
\* list such as [1, 2], "truncated" a mapping cut short, "call" an expression
\* such as dict(a=1).  doc is the mapping a "mapping" text denotes.
ParseJson(content) ==
    CASE content.text = "mapping"  -> [ok |-> TRUE, type |-> "dict", value |-> content.doc]
      [] content.text = "sequence" -> [ok |-> TRUE, type |-> "list", value |-> EmptyDict]
      [] OTHER -> [ok |-> FALSE, exc |-> "JSONDecodeError"]

ParseYaml(content) ==
    CASE content.text = "mapping"  -> [ok |-> TRUE, type |-> "dict", value |-> content.doc]
      [] content.text = "sequence" -> [ok |-> TRUE, type |-> "list", value |-> EmptyDict]
      [] content.text = "call"     -> [ok |-> TRUE, type |-> "str", value |-> EmptyDict]
      [] OTHER -> [ok |-> FALSE, exc |-> "YAMLError"]

ParseLiteral(content) ==
    CASE content.text = "mapping"  -> [ok |-> TRUE, type |-> "dict", value |-> content.doc]
      [] content.text = "sequence" -> [ok |-> TRUE, type |-> "list", value |-> EmptyDict]
      [] content.text = "call"     -> [ok |-> FALSE, exc |-> "ValueError"]
      [] OTHER -> [ok |-> FALSE, exc |-> "SyntaxError"]

UnknownExtension(filename) ==
    [ok |-> FALSE, exc |-> "ValueError",
     message |-> [text |-> "Unknown file extension", file |-> filename]]

\* A loader that takes a file of unknown extension for an empty style.
LoadKeyValueFileLenient(filename, content) ==
    LET lower == Lower(filename)
    IN  IF EndsWith(lower, ExtJson) THEN ParseJson(content)
        ELSE IF EndsWith(lower, ExtYaml) \/ EndsWith(lower, ExtYml) THEN ParseYaml(content)
        ELSE IF EndsWith(lower, ExtPy) \/ EndsWith(lower, ExtDict) THEN ParseLiteral(content)
        ELSE [ok |-> TRUE, type |-> "dict", value |-> EmptyDict]

load_key_value_file(filename, content) ==
    LET lower == Lower(filename)
    IN  IF EndsWith(lower, ExtJson) THEN ParseJson(content)
        ELSE IF EndsWith(lower, ExtYaml) \/ EndsWith(lower, ExtYml) THEN ParseYaml(content)
        ELSE IF EndsWith(lower, ExtPy) \/ EndsWith(lower, ExtDict) THEN ParseLiteral(content)
        ELSE UnknownExtension(filename)

\* isinstance(error, ValueError): json.JSONDecodeError derives from ValueError.
IsValueError(exc) == exc \in {"ValueError", "JSONDecodeError"}

\* ------------------------------------------------------- configuration builder

create_base_configuration ==
    [version |-> "v1",
     config |->
        [visState |->
            [filters |-> <<>>,
             layers |-> <<>>,
             interactionConfig |->
                [tooltip |-> [fieldsToShow |-> EmptyDict, enabled |-> TRUE],
                 brush |-> [size |-> Normalise(5, 1), enabled |-> FALSE],
                 geocoder |-> [enabled |-> FALSE],
                 coordinate |-> [enabled |-> FALSE]],
             layerBlending |-> "normal",
             splitMaps |-> <<>>,
             animationConfig |-> [currentTime |-> None, speed |-> 1]],
         mapState |-> None,
         mapStyle |->
            [styleType |-> "dark",
             topLayerGroups |-> EmptyDict,
             visibleLayerGroups |->
                [label |-> FALSE, road |-> TRUE, border |-> FALSE, building |-> TRUE,
                 water |-> TRUE, land |-> TRUE] @@ ("3d building" :> FALSE),
             threeDBuildingColor |->
                <<"9.665468314072013", "17.18305478057247", "31.1442867897876">>,
             mapStyles |-> EmptyDict]]]

\* Channels bound by an if/elif chain: only the first column given is bound.
CreateVisualChannelsChained(color_column, stroke_color_column, height_column) ==
    [colorField |->
        IF color_column # "" THEN [name |-> color_column, type |-> "integer"] ELSE None,
     colorScale |-> "quantize",
     sizeField |-> None,
     sizeScale |-> "linear",
     strokeColorField |->
        IF color_column = "" /\ stroke_color_column # ""
            THEN [name |-> stroke_color_column, type |-> "integer"] ELSE None,
     strokeColorScale |-> "quantize",
     heightField |->
        IF color_column = "" /\ stroke_color_column = "" /\ height_column # ""
            THEN [name |-> height_column, type |-> "integer"] ELSE None,
     heightScale |-> "linear",
     radiusField |-> None,
     radiusScale |-> "linear"]

create_visual_channels(color_column, stroke_color_column, height_column) ==
    [colorField |->
        IF color_column # "" THEN [name |-> color_column, type |-> "integer"] ELSE None,
     colorScale |-> "quantize",
     sizeField |-> None,
     sizeScale |-> "linear",
     strokeColorField |->
        IF stroke_color_column # ""
            THEN [name |-> stroke_color_column, type |-> "integer"] ELSE None,
     strokeColorScale |-> "quantize",
     heightField |->
        IF height_column # "" THEN [name |-> height_column, type |-> "integer"] ELSE None,
     heightScale |-> "linear",
     radiusField |-> None,
     radiusScale |-> "linear"]

LayerDefaults(id, label, channels) ==
    [id |-> "m1vnv5v",
     type |-> "geojson",
     config |->
        [dataId |-> id,
         label |-> label,
         color |-> <<136, 87, 44>>,
         columns |-> [geojson |-> "_geojson"],
         isVisible |-> TRUE,
         visConfig |-> EmptyDict,
         hidden |-> FALSE,
         textLabel |->
            << [field |-> None,
                color |-> <<255, 255, 255>>,
                size |-> 18,
                offset |-> <<0, 0>>,
                anchor |-> "start",
                alignment |-> "center"] >>],
     visualChannels |-> channels]

\* The style keys written into the layer's config instead of its visConfig.
LayerStyledAtConfig(id, label, channels, style) ==
    LET layer == LayerDefaults(id, label, channels)
    IN  [layer EXCEPT !.config = DictUpdate(@, style)]

\* The layer add_layer builds: the defaults, then every style key into visConfig.
Layer(id, label, channels, style) ==
    LET layer == LayerDefaults(id, label, channels)
    IN  [layer EXCEPT !.config.visConfig = DictUpdate(@, style)]

\* An append that is forgotten.
LayersUnchanged(layers, layer) == layers

\* config["config"]["visState"]["layers"].append(layer)
AppendLayer(layers, layer) == Append(layers, layer)

\* add_layer on the document, the style file holding content: the document with
\* the layer appended, the fatal error, or the exception that leaves add_layer.
add_layer(cfg, id, label, channels, style_file, content) ==
    LET loaded == IF style_file # <<>>
                      THEN load_key_value_file(style_file, content)
                      ELSE [ok |-> TRUE, type |-> "dict", value |-> EmptyDict]
    IN  IF ~loaded.ok
            THEN IF IsValueError(loaded.exc)
                     THEN [outcome |-> "fatal", exc |-> loaded.exc,
                           file |-> IF "message" \in DOMAIN loaded
                                        THEN loaded.message.file ELSE <<>>]
                     ELSE [outcome |-> "raised", exc |-> loaded.exc, file |-> <<>>]
        ELSE IF loaded.type # "dict"
            THEN [outcome |-> "raised", exc |-> "AttributeError", file |-> <<>>]
        ELSE [outcome |-> "ok",
              config |-> [cfg EXCEPT !.config.visState.layers =
                              AppendLayer(@, Layer(id, label, channels, loaded.value))]]

\* options["columns"].split(",") if options["columns"] else []
ShowColumnsKeepEmpty(columns) == Split(columns)

ShowColumns(columns) == IF columns # <<>> THEN Split(columns) ELSE <<>>

\* A camera state that keeps the default zoom, whatever the option says.
MapStateDefaultZoom(longitude, latitude, zoom) ==
    [bearing |-> 0, dragRotate |-> FALSE, latitude |-> latitude,
     longitude |-> longitude, pitch |-> 0, zoom |-> Normalise(5, 0), isSplit |-> FALSE]

\* The camera state add_map_state builds from the region centre and the zoom.
MapState(longitude, latitude, zoom) ==
    [bearing |-> 0, dragRotate |-> FALSE, latitude |-> latitude,
     longitude |-> longitude, pitch |-> 0, zoom |-> zoom, isSplit |-> FALSE]

\* add_map_state: the document with mapState set, or the ValueError of float().
add_map_state(cfg, center, zoom) ==
    LET longitude == ToFloat(center.center_easting)
        latitude == ToFloat(center.center_northing)
        z == ToFloat(zoom)
    IN  IF ~longitude.ok \/ ~latitude.ok \/ ~z.ok
            THEN [outcome |-> "raised", exc |-> "ValueError"]
            ELSE [outcome |-> "ok",
                  config |-> [cfg EXCEPT !.config.mapState =
                                  MapState(longitude.value, latitude.value, z.value)]]

\* ---------------------------------------------------------------- HTML patch

\* line.replace(old, new) on a line held as a sequence of text fragments.
RECURSIVE ReplaceFragment(_, _, _)
ReplaceFragment(line, old, new) ==
    IF line = <<>> THEN <<>>
    ELSE (IF Head(line) = old THEN new ELSE <<Head(line)>>)
             \o ReplaceFragment(Tail(line), old, new)

PatchLine(line, title) ==
    ReplaceFragment(
        ReplaceFragment(line, "<title>Kepler.gl</title>",
                        <<"<title>", title, " &ndash; GRASS GIS Kepler.gl</title>">>),
        "Kepler.gl Jupyter", <<title>>)

\* The page save_to_html writes, as far as the patch reads it.
KeplerHtml ==
    << <<"<head>">>,
       <<"<title>Kepler.gl</title>">>,
       <<"<a>", "Kepler.gl Jupyter", "</a>">> >>

\* ------------------------------------------------------------ the command line

RECURSIVE TextsUpTo(_, _)
TextsUpTo(alphabet, n) ==
    IF n = 0 THEN {<<>>}
    ELSE LET shorter == TextsUpTo(alphabet, n - 1)
         IN  shorter \cup {Append(t, c) : t \in shorter, c \in alphabet}

\* Values of the options a command line may carry; "" and <<>> are an option
\* that is not given.  title and zoom carry their declared answers by default.
InputNames == TextsUpTo({"g", "@"}, MaxNameLen)

OutputPaths == {"", "output.html"}

ColumnNames == {"", "ZIPCODE"}

ColumnsLists ==
    {<<>>, <<"a", ",", "b", ",", "c">>, <<"a", ",", ",", "b">>}

Titles == {"Generated by v.out.keplergl"}

Zooms == {<<"5">>, <<"7">>, <<"a", "b", "c">>}

Labels == {"", "Rocks"}

StyleFiles ==
    {<<>>,
     <<"s", ".", "j", "s", "o", "n">>,
     <<"S", ".", "J", "S", "O", "N">>,
     <<"s", ".", "y", "a", "m", "l">>,
     <<"s", ".", "y", "m", "l">>,
     <<"s", ".", "p", "y">>,
     <<"s", ".", "d", "i", "c", "t">>,
     <<"s", ".", "x", "y", "z">>}

CommandLines ==
    [input : InputNames, output : OutputPaths, color_column : ColumnNames,
     stroke_color_column : ColumnNames, height_column : ColumnNames,
     columns : ColumnsLists, title : Titles, zoom : Zooms, label : Labels,
     style : StyleFiles]

\* ----------------------------------------------------------- the environment

StyleDocs ==
    {[opacity |-> Normalise(8, 1), filled |-> TRUE],
     [dataId |-> "other", id |-> "x1", colorRange |-> [name |-> "Uber", reversed |-> FALSE]]}

\* What a style file may hold.
StyleContents ==
    [text : {"mapping"}, doc : StyleDocs]
        \cup [text : {"sequence", "truncated", "call"}, doc : {EmptyDict}]

\* What g.region -cg may print for the current region.
RegionCenters ==
    {[center_easting |-> <<"-", "7", "8", ".", "6">>, center_northing |-> <<"3", "5", ".", "7">>],
     [center_easting |-> <<"0">>, center_northing |-> <<"0">>]}

\* ------------------------------------------------------------------- main

\* The statements of main in the order it runs them.
MainOrderRenderEarly ==
    <<"start", "parser", "create_base_configuration", "create_visual_channels",
      "add_layer", "fieldsToShow", "v.out.ogr", "print", "KeplerGl",
      "add_map_state", "InPlace", "return">>

MainOrder ==
    <<"start", "parser", "create_base_configuration", "create_visual_channels",
      "add_layer", "fieldsToShow", "add_map_state", "v.out.ogr", "print",
      "KeplerGl", "InPlace", "return">>

\* Control is at the statement named step: the one before it has completed.
At(step) ==
    \E i \in 2..Len(MainOrder) : MainOrder[i] = step /\ pc = MainOrder[i - 1]

Running == [exited |-> FALSE, code |-> 0, error |-> "none", exc |-> "none", file |-> <<>>]

\* sys.exit(0) after main returns 0.
Returned == [exited |-> TRUE, code |-> 0, error |-> "none", exc |-> "none", file |-> <<>>]

\* The parser's usage error for a missing required option.
UsageError == [exited |-> TRUE, code |-> 1, error |-> "usage", exc |-> "none", file |-> <<>>]

\* gs.fatal(): the message, then sys.exit(1).
Fatal(exc, file) ==
    [exited |-> TRUE, code |-> 1, error |-> "fatal", exc |-> exc, file |-> file]

\* An exception no handler catches: the traceback, then exit status 1.
Uncaught(exc) ==
    [exited |-> TRUE, code |-> 1, error |-> "traceback", exc |-> exc, file |-> <<>>]

Init ==
    /\ pc = "start"
    /\ options = None
    /\ data_id = <<>>
    /\ config = None
    /\ visual_channels = None
    /\ style_content = None
    /\ geojson_file = None
    /\ stdout = <<>>
    /\ kepler = None
    /\ output_file = None
    /\ result = Running
    /\ trace = <<>>

\* A parser that lets a command line without input or output through.
RequiredGivenAlways(args) == TRUE

\* input and output are required options (G_OPT_V_INPUT, G_OPT_F_OUTPUT).
RequiredGiven(args) == args.input # <<>> /\ args.output # ""

\* options, unused_flags = gs.parser(), then the reads of options into locals.
Parser ==
    /\ At("parser")
    /\ \E args \in CommandLines :
        /\ options' = args
        /\ trace' = Append(trace, "parser")
        /\ IF RequiredGiven(args)
               THEN /\ pc' = "parser"
                    /\ data_id' = ReplaceAt(args.input)
                    /\ result' = result
               ELSE /\ pc' = "exit"
                    /\ data_id' = data_id
                    /\ result' = UsageError
    /\ UNCHANGED <<config, visual_channels, style_content, geojson_file, stdout,
                   kepler, output_file>>

CreateBaseConfiguration ==
    /\ At("create_base_configuration")
    /\ pc' = "create_base_configuration"
    /\ config' = create_base_configuration
    /\ trace' = Append(trace, "create_base_configuration")
    /\ UNCHANGED <<options, data_id, visual_channels, style_content, geojson_file,
                   stdout, kepler, output_file, result>>

CreateVisualChannels ==
    /\ At("create_visual_channels")
    /\ pc' = "create_visual_channels"
    /\ visual_channels' = create_visual_channels(options.color_column,
                              options.stroke_color_column, options.height_column)
    /\ trace' = Append(trace, "create_visual_channels")
    /\ UNCHANGED <<options, data_id, config, style_content, geojson_file, stdout,
                   kepler, output_file, result>>

\* The style file is opened when one is named and its extension is recognized.
Opened(style_file) ==
    /\ style_file # <<>>
    /\ \E ext \in {ExtJson, ExtYaml, ExtYml, ExtPy, ExtDict} : EndsWith(Lower(style_file), ext)

AddLayer ==
    /\ At("add_layer")
    /\ trace' = Append(trace, "add_layer")
    /\ \E content \in StyleContents :
        LET r == add_layer(config, data_id, options.label, visual_channels,
                           options.style, content)
        IN  /\ style_content' = IF Opened(options.style) THEN content ELSE None
            /\ CASE r.outcome = "ok" ->
                        /\ config' = r.config
                        /\ pc' = "add_layer"
                        /\ result' = result
                 [] r.outcome = "fatal" ->
                        /\ config' = config
                        /\ pc' = "exit"
                        /\ result' = Fatal(r.exc, r.file)
                 [] OTHER ->
                        /\ config' = config
                        /\ pc' = "exit"
                        /\ result' = Uncaught(r.exc)
    /\ UNCHANGED <<options, data_id, visual_channels, geojson_file, stdout, kepler,
                   output_file>>

\* fieldsToShow[data_id] = show_columns
SetFieldsToShow ==
    /\ At("fieldsToShow")
    /\ pc' = "fieldsToShow"
    /\ config' = [config EXCEPT !.config.visState.interactionConfig.tooltip.fieldsToShow =
                      DictUpdate(@, [k \in {data_id} |-> ShowColumns(options.columns)])]
    /\ trace' = Append(trace, "fieldsToShow")
    /\ UNCHANGED <<options, data_id, visual_channels, style_content, geojson_file,
                   stdout, kepler, output_file, result>>

AddMapState ==
    /\ At("add_map_state")
    /\ trace' = Append(trace, "add_map_state")
    /\ \E center \in RegionCenters :
        LET r == add_map_state(config, center, options.zoom)
        IN  IF r.outcome = "ok"
                THEN /\ config' = r.config
                     /\ pc' = "add_map_state"
                     /\ result' = result
                ELSE /\ config' = config
                     /\ pc' = "exit"
                     /\ result' = Uncaught(r.exc)
    /\ UNCHANGED <<options, data_id, visual_channels, style_content, geojson_file,
                   stdout, kepler, output_file>>

\* gs.run_command("v.out.ogr", ...): the GeoJSON file, or CalledModuleError when
\* the exporter fails (the input is no vector map it can export).
ExportGeometry ==
    /\ At("v.out.ogr")
    /\ trace' = Append(trace, "v.out.ogr")
    /\ \E exported \in BOOLEAN :
        IF exported
            THEN /\ geojson_file' = [format |-> "GeoJSON", input |-> options.input]
                 /\ pc' = "v.out.ogr"
                 /\ result' = result
            ELSE /\ geojson_file' = geojson_file
                 /\ pc' = "exit"
                 /\ result' = Uncaught("CalledModuleError")
    /\ UNCHANGED <<options, data_id, config, visual_channels, style_content, stdout,
                   kepler, output_file>>

PrintConfiguration ==
    /\ At("print")
    /\ pc' = "print"
    /\ stdout' = <<[line |-> "Using configuration (JSON syntax):"], [json |-> config]>>
    /\ trace' = Append(trace, "print")
    /\ UNCHANGED <<options, data_id, config, visual_channels, style_content,
                   geojson_file, kepler, output_file, result>>

\* KeplerGl(config=config), add_data(...), save_to_html(file_name=output_html)
Render ==
    /\ At("KeplerGl")
    /\ pc' = "KeplerGl"
    /\ kepler' = [config |-> config, data |-> [name |-> data_id, data |-> geojson_file]]
    /\ output_file' = [path |-> options.output, lines |-> KeplerHtml]
    /\ trace' = Append(trace, "KeplerGl")
    /\ UNCHANGED <<options, data_id, config, visual_channels, style_content,
                   geojson_file, stdout, result>>

\* with InPlace(output_html) as file: every line rewritten with both replacements
PatchHtml ==
    /\ At("InPlace")
    /\ pc' = "InPlace"
    /\ output_file' = [output_file EXCEPT !.lines =
                           [i \in DOMAIN @ |-> PatchLine(@[i], options.title)]]
    /\ trace' = Append(trace, "InPlace")
    /\ UNCHANGED <<options, data_id, config, visual_channels, style_content,
                   geojson_file, stdout, kepler, result>>

\* return 0, and sys.exit(main())
Return ==
    /\ At("return")
    /\ pc' = "exit"
    /\ result' = Returned
    /\ trace' = Append(trace, "return")
    /\ UNCHANGED <<options, data_id, config, visual_channels, style_content,
                   geojson_file, stdout, kepler, output_file>>

Next ==
    \/ Parser
    \/ CreateBaseConfiguration
    \/ CreateVisualChannels
    \/ AddLayer
    \/ SetFieldsToShow
    \/ AddMapState
    \/ ExportGeometry
    \/ PrintConfiguration
    \/ Render
    \/ PatchHtml
    \/ Return

Spec == Init /\ [][Next]_vars

\* ------------------------------------------------------------------ properties

Ran(step) == \E i \in DOMAIN trace : trace[i] = step

Extensions == {ExtJson, ExtYaml, ExtYml, ExtPy, ExtDict}

\* The style option names a file whose lower-cased name has a recognized ending.
RecognizedStyle ==
    options.style # <<>> /\ \E ext \in Extensions : EndsWith(Lower(options.style), ext)

UnrecognizedStyle ==
    options.style # <<>> /\ \A ext \in Extensions : ~EndsWith(Lower(options.style), ext)

NothingProduced ==
    /\ output_file = None
    /\ kepler = None
    /\ geojson_file = None

\* name or name@mapset
ValidMapName(name) ==
    /\ name # <<>>
    /\ Head(name) # "@"
    /\ name[Len(name)] # "@"
    /\ Cardinality({i \in DOMAIN name : name[i] = "@"}) <= 1

\* C1: an invocation with input and output given, a vector map the exporter
\* can export, and a style that is absent or a well-formed mapping in a file
\* of recognized extension, ends with exit code 0 and a file at the output path.
C1_ValidInvocationSucceeds ==
    (/\ result.exited
     /\ RequiredGiven(options)
     /\ ValidMapName(options.input)
     /\ result.exc # "CalledModuleError"
     /\ \/ options.style = <<>>
        \/ RecognizedStyle /\ style_content # None /\ style_content.text = "mapping")
        => (result.code = 0 /\ output_file # None /\ output_file.path = options.output)

\* C2: a command line without input or without output is rejected by the
\* parser: non-zero exit, no output file, and no statement of main after
\* gs.parser() has run (no configuration, no export, no renderer).
C2_MissingRequiredRejected ==
    (pc # "start" /\ (options.input = <<>> \/ options.output = ""))
        => /\ result.exited
           /\ result.code # 0
           /\ result.error = "usage"
           /\ trace = <<"parser">>
           /\ config = None
           /\ visual_channels = None
           /\ NothingProduced

C2_Witness ==
    /\ pc = "exit"
    /\ options.input # <<>>
    /\ options.output = ""
    /\ result.code = 1

\* C3: a style file whose lower-cased name ends in none of .json, .yaml, .yml,
\* .py, .dict ends the invocation in add_layer with a fatal error naming the
\* file and a non-zero status; nothing is exported, rendered or written.
C3_UnknownExtensionFatal ==
    (pc # "start" /\ RequiredGiven(options) /\ UnrecognizedStyle)
        => /\ NothingProduced
           /\ ~Ran("v.out.ogr") /\ ~Ran("KeplerGl") /\ ~Ran("InPlace")
           /\ Ran("add_layer") =>
                /\ result.exited
                /\ result.error = "fatal"
                /\ result.code # 0
                /\ result.file = options.style

C3_Witness ==
    /\ pc = "exit"
    /\ Ran("add_layer")
    /\ options.style = <<"s", ".", "x", "y", "z">>
    /\ result.error = "fatal"

\* C4: malformed content in a style file of recognized extension leaves the
\* invocation as the parser's own exception, uncaught; the fatal-error path is
\* taken only for an unrecognized extension.
C4_ParseErrorsPropagate ==
    /\ (pc # "start" /\ result.error = "fatal") => UnrecognizedStyle
    /\ (pc # "start" /\ RecognizedStyle /\ style_content # None
            /\ style_content.text = "truncated")
        => (result.error = "traceback"
            /\ result.exc \in {"JSONDecodeError", "YAMLError", "SyntaxError"})

\* Every AtText run of a name folded back into "@".
RECURSIVE RestoreAt(_)
RestoreAt(name) ==
    IF name = <<>> THEN <<>>
    ELSE IF Len(name) >= Len(AtText) /\ SubSeq(name, 1, Len(AtText)) = AtText
        THEN <<"@">> \o RestoreAt(SubSeq(name, Len(AtText) + 1, Len(name)))
    ELSE <<Head(name)>> \o RestoreAt(Tail(name))

RECURSIVE Join(_)
Join(pieces) ==
    IF pieces = <<>> THEN <<>>
    ELSE IF Len(pieces) = 1 THEN pieces[1]
    ELSE pieces[1] \o <<",">> \o Join(Tail(pieces))

\* C5: in the configuration the renderer receives, fieldsToShow has one key,
\* the layer's dataId, which is the input name with each "@" turned into
\* "__at__"; its value is the columns option split at the commas, in order,
\* and the empty list when columns is not given.
C5_TooltipFields ==
    kepler # None =>
        LET visState == kepler.config.config.visState
            fields == visState.interactionConfig.tooltip.fieldsToShow
        IN  /\ Cardinality(DOMAIN fields) = 1
            /\ \A key \in DOMAIN fields :
                /\ key = visState.layers[1].config.dataId
                /\ \A i \in DOMAIN key : key[i] # "@"
                /\ RestoreAt(key) = options.input
                /\ \A i \in DOMAIN fields[key] :
                       \A j \in DOMAIN fields[key][i] : fields[key][i][j] # ","
                /\ IF options.columns = <<>>
                       THEN fields[key] = <<>>
                       ELSE Join(fields[key]) = options.columns
                /\ options.columns = <<"a", ",", "b", ",", "c">>
                       => fields[key] = << <<"a">>, <<"b">>, <<"c">> >>

C5_Witness ==
    /\ kepler # None
    /\ options.columns = <<"a", ",", "b", ",", "c">>
    /\ options.input = <<"g", "@">>

\* C6: the configuration the renderer receives has exactly one layer and a
\* mapState that is not None, whatever the options and the style file.
C6_OneLayerAndMapState ==
    kepler # None =>
        /\ Len(kepler.config.config.visState.layers) = 1
        /\ kepler.config.config.mapState # None

C6_Witness ==
    /\ kepler # None
    /\ RecognizedStyle
    /\ options.color_column # ""

\* C7: add_map_state sets zoom to the number the zoom option holds (7 gives
\* 7.0, the default 5 gives 5.0) with bearing 0, pitch 0 and isSplit false,
\* and changes nothing of the document but config.mapState.
C7_MapState ==
    [][(At("add_map_state") /\ pc' = "add_map_state")
          => /\ config'.config.mapState.bearing = 0
             /\ config'.config.mapState.pitch = 0
             /\ config'.config.mapState.isSplit = FALSE
             /\ options.zoom = <<"7">>
                    => config'.config.mapState.zoom = [mant |-> 7, scale |-> 0]
             /\ options.zoom = <<"5">>
                    => config'.config.mapState.zoom = [mant |-> 5, scale |-> 0]
             /\ [config' EXCEPT !.config.mapState = None] = config]_vars

C7_Witness ==
    /\ pc = "add_map_state"
    /\ options.zoom = <<"7">>
    /\ config.config.mapState.zoom = [mant |-> 7, scale |-> 0]

ClaimedOrder ==
    <<"create_base_configuration", "create_visual_channels", "add_layer",
      "fieldsToShow", "add_map_state", "v.out.ogr", "KeplerGl", "InPlace">>

IsClaimedStep(step) == \E i \in DOMAIN ClaimedOrder : ClaimedOrder[i] = step

Complete(cfg) ==
    /\ Len(cfg.config.visState.layers) = 1
    /\ data_id \in DOMAIN cfg.config.visState.interactionConfig.tooltip.fieldsToShow
    /\ cfg.config.mapState # None

\* C8: the steps run in the order base configuration, visual channels, layer,
\* tooltip list, camera state, export, renderer, HTML patch, each at most
\* once; the document is complete when the renderer receives it and is not
\* changed afterwards: only the lines of the output file are.
C8_LinearFlow ==
    /\ [](LET steps == SelectSeq(trace, IsClaimedStep)
          IN  /\ Len(steps) <= Len(ClaimedOrder)
              /\ steps = SubSeq(ClaimedOrder, 1, Len(steps))
              /\ kepler # None => (kepler.config = config /\ Complete(config)))
    /\ [][kepler # None
            => /\ config' = config
               /\ kepler' = kepler
               /\ geojson_file' = geojson_file
               /\ stdout' = stdout
               /\ output_file'.path = output_file.path]_vars

C8_Witness ==
    /\ pc = "exit"
    /\ result.code = 0
    /\ SelectSeq(trace, IsClaimedStep) = ClaimedOrder
    /\ output_file.lines # KeplerHtml

\* C9: after add_layer the layer's visConfig is the style document's top-level
\* keys and values as loaded (empty without a style file); every other field
\* of the layer has its default or argument value, and the document outside
\* the layer list is as create_base_configuration made it.
C9_StyleIntoVisConfig ==
    pc = "add_layer" =>
        /\ Len(config.config.visState.layers) = 1
        /\ LET layer == config.config.visState.layers[1]
           IN  /\ layer.config.visConfig =
                      IF options.style = <<>> THEN EmptyDict ELSE style_content.doc
               /\ layer.id = "m1vnv5v"
               /\ layer.type = "geojson"
               /\ layer.config.dataId = data_id
               /\ layer.config.label = options.label
               /\ layer.config.color = <<136, 87, 44>>
               /\ layer.config.textLabel[1].field = None
               /\ layer.visualChannels = visual_channels
               /\ DOMAIN layer = {"id", "type", "config", "visualChannels"}
        /\ [config EXCEPT !.config.visState.layers = <<>>] = create_base_configuration

C9_Witness ==
    /\ pc = "add_layer"
    /\ style_content # None
    /\ "dataId" \in DOMAIN style_content.doc
    /\ config.config.visState.layers[1].config.visConfig.dataId = "other"

\* The named column as a {name, type} pair when given, None when not.
Bound(field, column) ==
    IF column # ""
        THEN field # None /\ DOMAIN field = {"name", "type"} /\ field.name = column
        ELSE field = None

\* C10: colorField, strokeColorField and heightField are each bound to their
\* own column exactly when it is given, whatever the other two are;
\* sizeField and radiusField are always None.
C10_ChannelsIndependent ==
    visual_channels # None =>
        /\ Bound(visual_channels.colorField, options.color_column)
        /\ Bound(visual_channels.strokeColorField, options.stroke_color_column)
        /\ Bound(visual_channels.heightField, options.height_column)
        /\ visual_channels.sizeField = None
        /\ visual_channels.radiusField = None

C10_Witness ==
    /\ visual_channels # None
    /\ options.color_column # ""
    /\ options.stroke_color_column = ""
    /\ options.height_column # ""
    /\ visual_channels.heightField # None

====
